---- MODULE Spec2Model ----
(***************************************************************************)
(* Model of pipeline::MultiInput and pipeline::Inputs<DataType>            *)
(* (src/Inputs.h): the dynamically growing collection of inputs of a       *)
(* process node, the backward slots and callbacks provisioned for every    *)
(* accepted input, and the InputAdded / InputAddedToSharedPointer /        *)
(* InputsCleared signals sent through the internal sender.                 *)
(***************************************************************************)
EXTENDS Naturals, Integers, Sequences, FiniteSets, TLC

VARIABLES
    inputs,             \* Inputs::_inputs, the vector of Input objects
    slots,              \* MultiInput::_slots, registered SlotsBase pointers
    multiCallbacks,     \* MultiInput::_multiCallbacks, (CallbacksBase*, ProcessNode*) pairs
    internalConnected,  \* Inputs::_internalConnected
    slotCount,          \* number of slots held by each SlotsBase object
    connections,        \* Sender::connect calls made so far, in call order
    history,            \* signals sent through _internalSender, in order
    created,            \* number of Input objects stored so far (object identity)
    last,               \* the most recent call, its argument and its return value
    alive,              \* the process nodes that have not been destroyed
    invoked             \* the backward callbacks run by the most recent call

vars == <<inputs, slots, multiCallbacks, internalConnected, slotCount,
          connections, history, created, last, alive, invoked>>

----------------------------------------------------------------------------
(* Bounds of the model *)

MaxCalls == 6        \* calls that change the state, over the life of the instance
MaxAccepts == 3      \* successful accept calls over the life of the instance
MaxClears == 1       \* clear calls over the life of the instance
MaxSlots == 2        \* registerSlots calls
MaxCallbacks == 2    \* registerCallbacks calls

----------------------------------------------------------------------------
(* The objects the calls are made with *)

\* The Slots objects owned by the process node.
Groups == {"g1", "g2"}

\* Process nodes a callback can be tracked by; NoNode is the null pointer.
NoNode == "null"
Nodes == {"n1"}

\* Outputs offered to accept(OutputBase&): one carries DataType, one does not.
Outputs == {[id |-> 1, type |-> "DataType"],
            [id |-> 2, type |-> "Other"]}

\* Data pointers offered to accept(shared_ptr<Data>).
Datas == {[id |-> 1, type |-> "DataType"],
          [id |-> 2, type |-> "Other"]}

\* Endpoints of signalling connections.
InternalSender == <<"internalSender", 0>>
OwnSender == <<"inputs.sender", 0>>
OwnReceiver == <<"inputs.receiver", 0>>
OutputSender(o) == <<"output.sender", o.id>>
OutputReceiver(o) == <<"output.receiver", o.id>>
InputSender(i) == <<"input.sender", i>>
InputReceiver(i) == <<"input.receiver", i>>

----------------------------------------------------------------------------
(* Helpers *)

\* Number of entries of a sequence that satisfy a kind.
RECURSIVE CountKind(_, _)
CountKind(h, k) ==
    IF h = <<>> THEN 0
    ELSE (IF Head(h).kind = k THEN 1 ELSE 0) + CountKind(Tail(h), k)

\* Number of calls made so far that changed the state: every registration
\* extends a list and every successful accept or clear sends one signal.
Calls == Len(slots) + Len(multiCallbacks) + Len(history)

\* Inputs::size()
size == Len(inputs)

\* Inputs::operator[](i), 0-based
At(i) == inputs[i + 1]

\* Input<DataType>::accept: the new input takes the output or data pointer
\* only if it carries DataType.
Compatible(src) == src.type = "DataType"

\* SlotsBase::addSlot(): the index of the slot it appends to the group.
addSlot(counts, g) == counts[g]

\* The foreach over getSlots() in __accept: one addSlot() per registered
\* pointer, in registration order, each new slot registered at the new input.
RECURSIVE RegisterSlotsAtInput(_, _, _)
RegisterSlotsAtInput(gs, counts, bound) ==
    IF gs = <<>> THEN [counts |-> counts, bound |-> bound]
    ELSE LET g == Head(gs)
             s == addSlot(counts, g)
         IN  RegisterSlotsAtInput(Tail(gs),
                                  [counts EXCEPT ![g] = @ + 1],
                                  Append(bound, [group |-> g, slot |-> s]))

\* Variant of RegisterCallbacksAtInput: the loop stops one pair early.
RegisterCallbacksAtInputButLast(cbs, numInput) ==
    [c \in 1..(IF cbs = <<>> THEN 0 ELSE Len(cbs) - 1) |->
        [cb |-> c, numInput |-> numInput,
         tracked |-> cbs[c].processNode # NoNode,
         processNode |-> cbs[c].processNode]]

\* Variant of RegisterCallbacksAtInput: the process node is never passed on.
RegisterCallbacksAtInputUntracked(cbs, numInput) ==
    [c \in 1..Len(cbs) |->
        [cb |-> c, numInput |-> numInput,
         tracked |-> FALSE,
         processNode |-> cbs[c].processNode]]

\* Variant of RegisterCallbacksAtInput: the test of the pointer is inverted.
RegisterCallbacksAtInputInverted(cbs, numInput) ==
    [c \in 1..Len(cbs) |->
        [cb |-> c, numInput |-> numInput,
         tracked |-> cbs[c].processNode = NoNode,
         processNode |-> cbs[c].processNode]]

\* The foreach over getMultiCallbacks() in __accept: registerAtInput with
\* numInput, tracked by the process node when the pointer is non-zero.
RegisterCallbacksAtInput(cbs, numInput) ==
    [c \in 1..Len(cbs) |->
        [cb |-> c, numInput |-> numInput,
         tracked |-> cbs[c].processNode # NoNode,
         processNode |-> cbs[c].processNode]]

\* Variant of RegistrationOrder: the callbacks are registered first.
RegistrationOrderCallbacksFirst(nSlots, nCallbacks) ==
    [k \in 1..(nSlots + nCallbacks) |->
        IF k <= nCallbacks THEN "callback" ELSE "slot"]

\* The order in which __accept registers things at the new input: the slots
\* of the first foreach, then the callbacks of the second.
RegistrationOrder(nSlots, nCallbacks) ==
    [k \in 1..(nSlots + nCallbacks) |->
        IF k <= nSlots THEN "slot" ELSE "callback"]

----------------------------------------------------------------------------
(* Signals sent through _internalSender *)

NoInput == 0

\* What a callback running synchronously inside the slot call observes.
Observed(ins, counts, nSlots, nCallbacks) ==
    [size |-> Len(ins),
     ids |-> [i \in 1..Len(ins) |-> ins[i].id],
     slotCount |-> counts,
     nSlots |-> nSlots,
     nCallbacks |-> nCallbacks]

\* Variant of InputAddedSignal: the signal carries the first input held.
InputAddedSignalOfFirst(newInput, ins, counts) ==
    [kind |-> "InputAdded",
     input |-> IF ins = <<>> THEN newInput.id ELSE ins[1].id,
     seen |-> Observed(ins, counts, Len(newInput.slots), Len(newInput.callbacks))]

\* _inputAdded(input_added_type(newInput))
InputAddedSignal(newInput, ins, counts) ==
    [kind |-> "InputAdded", input |-> newInput.id,
     seen |-> Observed(ins, counts, Len(newInput.slots), Len(newInput.callbacks))]

\* _inputAddedToSharedPointer(input_added_to_shared_pointer_type(newInput))
InputAddedToSharedPointerSignal(newInput, ins, counts) ==
    [kind |-> "InputAddedToSharedPointer", input |-> newInput.id,
     seen |-> Observed(ins, counts, Len(newInput.slots), Len(newInput.callbacks))]

\* _inputsCleared()
InputsClearedSignal(ins, counts) ==
    [kind |-> "InputsCleared", input |-> NoInput,
     seen |-> Observed(ins, counts, 0, 0)]

----------------------------------------------------------------------------
(* Inputs<DataType> *)

\* Inputs::Inputs(): nothing registered, nothing connected.
Init ==
    /\ inputs = <<>>
    /\ slots = <<>>
    /\ multiCallbacks = <<>>
    /\ internalConnected = FALSE
    /\ slotCount = [g \in Groups |-> 0]
    /\ connections = <<>>
    /\ history = <<>>
    /\ created = 0
    /\ last = [op |-> "Inputs", kind |-> "none", arg |-> 0, ret |-> TRUE]
    /\ alive = Nodes
    /\ invoked = <<>>

\* Variant of establishingSignallingOutput: the signal is sent once the new
\* input is in _inputs.
establishingSignallingOutputAfterPush(output, newInput, conns, hist, ins, counts) ==
    [connections |->
        conns \o << <<OutputSender(output), InputReceiver(newInput.id)>>,
                    <<InputSender(newInput.id), OutputReceiver(output)>>,
                    <<OutputSender(output), OwnReceiver>>,
                    <<OwnSender, OutputReceiver(output)>> >>,
     history |-> Append(hist, InputAddedSignal(newInput, Append(ins, newInput), counts))]

\* establishingSignalling(OutputBase&, Input<DataType>&): the four connect
\* calls, then the InputAdded signal. ins and counts are _inputs and the slot
\* groups as they stand when the signal is sent.
establishingSignallingOutput(output, newInput, conns, hist, ins, counts) ==
    [connections |->
        conns \o << <<OutputSender(output), InputReceiver(newInput.id)>>,
                    <<InputSender(newInput.id), OutputReceiver(output)>>,
                    <<OutputSender(output), OwnReceiver>>,
                    <<OwnSender, OutputReceiver(output)>> >>,
     history |-> Append(hist, InputAddedSignal(newInput, ins, counts))]

\* Variant of establishingSignallingData: no slot is called at all.
establishingSignallingDataSilent(data, newInput, conns, hist, ins, counts) ==
    [connections |-> conns, history |-> hist]

\* Variant of establishingSignallingData: the InputAdded slot is called.
establishingSignallingDataAsOutput(data, newInput, conns, hist, ins, counts) ==
    [connections |-> conns,
     history |-> Append(hist, InputAddedSignal(newInput, ins, counts))]

\* establishingSignalling(shared_ptr<Data>, Input<DataType>&): no connect
\* call, only the InputAddedToSharedPointer signal.
establishingSignallingData(data, newInput, conns, hist, ins, counts) ==
    [connections |-> conns,
     history |-> Append(hist, InputAddedToSharedPointerSignal(newInput, ins, counts))]

\* Variant of ConnectInternal: the flag is not consulted.
ConnectInternalAlways(conns, flag) ==
    [connections |-> Append(conns, <<InternalSender, OwnReceiver>>),
     internalConnected |-> TRUE]

\* The if (!_internalConnected) block of __accept.
ConnectInternal(conns, flag) ==
    IF ~flag
    THEN [connections |-> Append(conns, <<InternalSender, OwnReceiver>>),
          internalConnected |-> TRUE]
    ELSE [connections |-> conns, internalConnected |-> flag]

\* Variant of PushBack: the new input is put in front of the others.
PushFront(ins, newInput) == <<newInput>> \o ins

\* _inputs.push_back(newInput)
PushBack(ins, newInput) == Append(ins, newInput)

\* The branch of __accept taken when newInput->accept(output) holds: slots,
\* callbacks, internal connection, signalling, and only then the push_back.
acceptCompatible(src, kind) ==
    /\ Calls < MaxCalls
    /\ created < MaxAccepts
    /\ LET numInput == Len(inputs)
           reg == RegisterSlotsAtInput(slots, slotCount, <<>>)
           newInput == [id |-> created + 1,
                        src |-> <<kind, src.id>>,
                        slots |-> reg.bound,
                        callbacks |-> RegisterCallbacksAtInput(multiCallbacks, numInput),
                        order |-> RegistrationOrder(Len(slots), Len(multiCallbacks))]
           int == ConnectInternal(connections, internalConnected)
           sig == IF kind = "output"
                  THEN establishingSignallingOutput(src, newInput, int.connections,
                                                    history, inputs, reg.counts)
                  ELSE establishingSignallingData(src, newInput, int.connections,
                                                  history, inputs, reg.counts)
       IN  /\ slotCount' = reg.counts
           /\ internalConnected' = int.internalConnected
           /\ connections' = sig.connections
           /\ history' = sig.history
           /\ inputs' = PushBack(inputs, newInput)
           /\ created' = created + 1
           /\ last' = [op |-> "accept", kind |-> kind, arg |-> src.id, ret |-> TRUE]
           /\ invoked' = <<>>
           /\ UNCHANGED alive
           /\ UNCHANGED <<slots, multiCallbacks>>

\* Variant of acceptIncompatible: the slots are allocated before the test
\* and stay allocated when the test fails.
acceptIncompatibleKeepingSlots(src, kind) ==
    /\ last' = [op |-> "accept", kind |-> kind, arg |-> src.id, ret |-> FALSE]
    /\ invoked' = <<>>
    /\ UNCHANGED alive
    /\ slotCount' = RegisterSlotsAtInput(slots, slotCount, <<>>).counts
    /\ UNCHANGED <<inputs, slots, multiCallbacks, internalConnected,
                   connections, history, created>>

\* The branch of __accept taken otherwise: the new input is dropped.
acceptIncompatible(src, kind) ==
    /\ last' = [op |-> "accept", kind |-> kind, arg |-> src.id, ret |-> FALSE]
    /\ invoked' = <<>>
    /\ UNCHANGED alive
    /\ UNCHANGED <<inputs, slots, multiCallbacks, internalConnected, slotCount,
                   connections, history, created>>

\* Variant of __accept: an output or data pointer already held is refused.
__acceptDeduplicating(src, kind) ==
    IF Compatible(src) /\ \A i \in 1..Len(inputs) : inputs[i].src # <<kind, src.id>>
    THEN acceptCompatible(src, kind)
    ELSE acceptIncompatible(src, kind)

\* Inputs::__accept(OutputType&), for kind "output" (OutputBase&) and
\* kind "data" (shared_ptr<Data>).
__accept(src, kind) ==
    IF Compatible(src)
    THEN acceptCompatible(src, kind)
    ELSE acceptIncompatible(src, kind)

\* bool accept(OutputBase& output)
accept(output) == __accept(output, "output")

\* bool accept(boost::shared_ptr<Data> data)
acceptData(data) == __accept(data, "data")

\* Variant of ClearSlots: only the first registered group is cleared.
ClearFirstSlots(gs, counts) ==
    [g \in Groups |-> IF gs # <<>> /\ gs[1] = g THEN 0 ELSE counts[g]]

\* slots->clear() for every registered SlotsBase pointer
ClearSlots(gs, counts) ==
    [g \in Groups |-> IF \E i \in 1..Len(gs) : gs[i] = g THEN 0 ELSE counts[g]]

\* Variant of clear: the registered slot groups are dropped as well.
clearUnregistering ==
    /\ Calls < MaxCalls
    /\ CountKind(history, "InputsCleared") < MaxClears
    /\ LET counts == ClearSlots(slots, slotCount)
           ins == <<>>
       IN  /\ slotCount' = counts
           /\ inputs' = ins
           /\ history' = Append(history, InputsClearedSignal(ins, counts))
    /\ slots' = <<>>
    /\ last' = [op |-> "clear", kind |-> "none", arg |-> 0, ret |-> TRUE]
    /\ invoked' = <<>>
    /\ UNCHANGED alive
    /\ UNCHANGED <<multiCallbacks, internalConnected, connections, created>>

\* Variant of clear: the signal is sent before anything is cleared.
clearSignallingFirst ==
    /\ Calls < MaxCalls
    /\ CountKind(history, "InputsCleared") < MaxClears
    /\ LET counts == ClearSlots(slots, slotCount)
           ins == <<>>
       IN  /\ slotCount' = counts
           /\ inputs' = ins
           /\ history' = Append(history, InputsClearedSignal(inputs, slotCount))
    /\ last' = [op |-> "clear", kind |-> "none", arg |-> 0, ret |-> TRUE]
    /\ invoked' = <<>>
    /\ UNCHANGED alive
    /\ UNCHANGED <<slots, multiCallbacks, internalConnected, connections, created>>

\* Variant of clear: the connections made for the outputs are dropped.
clearDisconnecting ==
    /\ Calls < MaxCalls
    /\ CountKind(history, "InputsCleared") < MaxClears
    /\ LET counts == ClearSlots(slots, slotCount)
           ins == <<>>
       IN  /\ slotCount' = counts
           /\ inputs' = ins
           /\ history' = Append(history, InputsClearedSignal(ins, counts))
    /\ connections' = IF internalConnected
                      THEN << <<InternalSender, OwnReceiver>> >> ELSE <<>>
    /\ last' = [op |-> "clear", kind |-> "none", arg |-> 0, ret |-> TRUE]
    /\ invoked' = <<>>
    /\ UNCHANGED alive
    /\ UNCHANGED <<slots, multiCallbacks, internalConnected, created>>

\* void clear()
clear ==
    /\ Calls < MaxCalls
    /\ CountKind(history, "InputsCleared") < MaxClears
    /\ LET counts == ClearSlots(slots, slotCount)
           ins == <<>>
       IN  /\ slotCount' = counts
           /\ inputs' = ins
           /\ history' = Append(history, InputsClearedSignal(ins, counts))
    /\ last' = [op |-> "clear", kind |-> "none", arg |-> 0, ret |-> TRUE]
    /\ invoked' = <<>>
    /\ UNCHANGED alive
    /\ UNCHANGED <<slots, multiCallbacks, internalConnected, connections, created>>

----------------------------------------------------------------------------
(* MultiInput *)

\* void unset() { clear(); }
unset == clear

\* Variant of registerSlots: the group gets a slot for every input held.
registerSlotsBackfilling(g) ==
    /\ Calls < MaxCalls
    /\ Len(slots) < MaxSlots
    /\ slots' = Append(slots, g)
    /\ slotCount' = [slotCount EXCEPT ![g] = @ + size]
    /\ last' = [op |-> "registerSlots", kind |-> "none", arg |-> 0, ret |-> TRUE]
    /\ invoked' = <<>>
    /\ UNCHANGED alive
    /\ UNCHANGED <<inputs, multiCallbacks, internalConnected,
                   connections, history, created>>

\* void registerSlots(signals::SlotsBase& slots)
registerSlots(g) ==
    /\ Calls < MaxCalls
    /\ Len(slots) < MaxSlots
    /\ slots' = Append(slots, g)
    /\ last' = [op |-> "registerSlots", kind |-> "none", arg |-> 0, ret |-> TRUE]
    /\ invoked' = <<>>
    /\ UNCHANGED alive
    /\ UNCHANGED <<inputs, multiCallbacks, internalConnected, slotCount,
                   connections, history, created>>

\* _multiCallbacks.push_back(std::make_pair(new Callbacks<SignalType>(...), node))
PushCallbacks(cbs, node) ==
    Append(cbs, [processNode |-> node])

\* registerCallbacks(void (T::*)(SignalType&, unsigned int), T* processNode)
registerCallbacksMember(node) ==
    /\ Calls < MaxCalls
    /\ Len(multiCallbacks) < MaxCallbacks
    /\ multiCallbacks' = PushCallbacks(multiCallbacks, node)
    /\ last' = [op |-> "registerCallbacks", kind |-> "none", arg |-> 0, ret |-> TRUE]
    /\ invoked' = <<>>
    /\ UNCHANGED alive
    /\ UNCHANGED <<inputs, slots, internalConnected, slotCount,
                   connections, history, created>>

\* registerCallbacks(boost::function<...> callback, ProcessNode* processNode)
registerCallbacksTracked(node) ==
    /\ Calls < MaxCalls
    /\ Len(multiCallbacks) < MaxCallbacks
    /\ multiCallbacks' = PushCallbacks(multiCallbacks, node)
    /\ last' = [op |-> "registerCallbacks", kind |-> "none", arg |-> 0, ret |-> TRUE]
    /\ invoked' = <<>>
    /\ UNCHANGED alive
    /\ UNCHANGED <<inputs, slots, internalConnected, slotCount,
                   connections, history, created>>

\* registerCallbacks(boost::function<...> callback)
registerCallbacksUntracked ==
    /\ Calls < MaxCalls
    /\ Len(multiCallbacks) < MaxCallbacks
    /\ multiCallbacks' = PushCallbacks(multiCallbacks, NoNode)
    /\ last' = [op |-> "registerCallbacks", kind |-> "none", arg |-> 0, ret |-> TRUE]
    /\ invoked' = <<>>
    /\ UNCHANGED alive
    /\ UNCHANGED <<inputs, slots, internalConnected, slotCount,
                   connections, history, created>>

----------------------------------------------------------------------------
(* Process nodes and backward signals *)

\* A callback registered at an input runs when a backward signal reaches the
\* input, unless it is tracked by a process node that is gone.
Runs(binding, living) ==
    ~binding.tracked \/ binding.processNode \in living

\* The callbacks of an input that a backward signal runs, in registration order.
RECURSIVE Dispatch(_, _)
Dispatch(bindings, living) ==
    IF bindings = <<>> THEN <<>>
    ELSE (IF Runs(Head(bindings), living) THEN <<Head(bindings)>> ELSE <<>>)
         \o Dispatch(Tail(bindings), living)

\* A process node is destroyed.
destroyNode(n) ==
    /\ n \in alive
    /\ alive' = alive \ {n}
    /\ invoked' = <<>>
    /\ last' = [op |-> "destroyNode", kind |-> "none", arg |-> 0, ret |-> TRUE]
    /\ UNCHANGED <<inputs, slots, multiCallbacks, internalConnected, slotCount,
                   connections, history, created>>

\* A backward signal of the registered type reaches input i.
backwardSignal(i) ==
    /\ invoked' = [port |-> i, called |-> Dispatch(At(i).callbacks, alive)]
    /\ last' = [op |-> "backwardSignal", kind |-> "none", arg |-> 0, ret |-> TRUE]
    /\ UNCHANGED <<inputs, slots, multiCallbacks, internalConnected, slotCount,
                   connections, history, created, alive>>

----------------------------------------------------------------------------

Next ==
    \/ \E o \in Outputs : accept(o)
    \/ \E d \in Datas : acceptData(d)
    \/ clear
    \/ unset
    \/ \E g \in Groups : registerSlots(g)
    \/ \E n \in Nodes : registerCallbacksMember(n)
    \/ \E n \in Nodes : registerCallbacksTracked(n)
    \/ registerCallbacksUntracked

Spec == Init /\ [][Next]_vars

\* The calls that matter to callbacks, with process nodes being destroyed and
\* backward signals reaching the inputs in between. The slot groups play no
\* part in which callbacks run, so registerSlots is not among them.
NextSignals ==
    \/ \E o \in Outputs : accept(o)
    \/ \E d \in Datas : acceptData(d)
    \/ clear
    \/ \E n \in Nodes : registerCallbacksMember(n)
    \/ \E n \in Nodes : registerCallbacksTracked(n)
    \/ registerCallbacksUntracked
    \/ \E n \in Nodes : destroyNode(n)
    \/ \E i \in 0..(size - 1) : backwardSignal(i)

SpecSignals == Init /\ [][NextSignals]_vars

----------------------------------------------------------------------------
(* Properties *)

\* Ids of the inputs held, in index order.
InputIds == [i \in 1..Len(inputs) |-> inputs[i].id]

Cleared == CountKind(history, "InputsCleared") > 0

IsAdded(e) == e.kind \in {"InputAdded", "InputAddedToSharedPointer"}

\* The step is a successful accept / a failing accept / a clear.
AcceptedStep == last'.op = "accept" /\ last'.ret
RejectedStep == last'.op = "accept" /\ ~last'.ret
ClearStep == last'.op = "clear"

\* C1: after N successful accept calls (either kind) and no clear, size() is N;
\* the k-th accepted input (0-based) sits at index k, its callbacks were
\* registered with numInput = k, and it stays at index k until clear.
C1_IndexIsAcceptOrder ==
    /\ [](~Cleared => /\ size = created
                      /\ \A k \in 0..(size - 1) : At(k).id = k + 1)
    /\ [](\A k \in 0..(size - 1) :
            \A c \in 1..Len(At(k).callbacks) : At(k).callbacks[c].numInput = k)
    /\ [][~ClearStep => /\ Len(inputs') >= Len(inputs)
                        /\ SubSeq(inputs', 1, Len(inputs)) = inputs]_vars

C1_Witness ==
    /\ ~Cleared
    /\ size = 3
    /\ At(1).src[1] = "output"
    /\ At(2).src[1] = "data"
    /\ Len(At(2).callbacks) = 2

\* C2: every registered slot group holds exactly size() slots.
C2_SlotCountIsSize ==
    \A i \in 1..Len(slots) : slotCount[slots[i]] = size

\* C3: the slot registered at input i in a registered group is slot i of the
\* group: addSlot() returned the index the input has in the collection.
C3_SlotIndexIsInputIndex ==
    \A k \in 0..(size - 1) :
        \A j \in 1..Len(At(k).slots) : At(k).slots[j].slot = k

\* C4: an accept whose compatibility test fails returns false and changes
\* nothing; accept returns true exactly when an input was appended.
C4_RejectChangesNothing ==
    /\ [][RejectedStep =>
            UNCHANGED <<inputs, slots, multiCallbacks, internalConnected,
                        slotCount, connections, history>>]_vars
    /\ [][last'.op = "accept" =>
            (last'.ret <=> /\ Len(inputs') = Len(inputs) + 1
                           /\ SubSeq(inputs', 1, Len(inputs)) = inputs)]_vars

C4_Witness ==
    /\ last.op = "accept"
    /\ ~last.ret
    /\ size = 2
    /\ Len(slots) = 2
    /\ Len(history) = 2
    /\ internalConnected

\* C5: one clear() sends exactly one InputsCleared signal and nothing else,
\* and leaves size() = 0 and every registered slot group without slots.
C5_ClearSendsOneSignal ==
    [][ClearStep =>
        /\ Len(history') = Len(history) + 1
        /\ SubSeq(history', 1, Len(history)) = history
        /\ history'[Len(history')].kind = "InputsCleared"
        /\ Len(inputs') = 0
        /\ \A i \in 1..Len(slots') : slotCount'[slots'[i]] = 0]_vars

C5_Witness ==
    /\ last.op = "clear"
    /\ Len(history) = 3
    /\ slots = <<"g1", "g2">>
    /\ history[2].seen.slotCount = [g \in Groups |-> 2]

\* Number of times a slot group was registered.
Registrations(g) == Cardinality({i \in 1..Len(slots) : slots[i] = g})

\* The first successful accept after a clear.
FirstAcceptAfterClear == Cleared /\ size = 0 /\ AcceptedStep

\* What clear() keeps, and what the callbacks of the next input are.
ClearKeepsRegistrations ==
    /\ [][ClearStep => slots' = slots /\ multiCallbacks' = multiCallbacks]_vars
    /\ [][FirstAcceptAfterClear =>
            /\ Len(inputs') = 1
            /\ Len(inputs'[1].slots) = Len(slots)
            /\ Len(inputs'[1].callbacks) = Len(multiCallbacks)
            /\ \A c \in 1..Len(multiCallbacks) :
                   /\ inputs'[1].callbacks[c].cb = c
                   /\ inputs'[1].callbacks[c].numInput = 0]_vars

C7_OneInputAdded ==
    [][(AcceptedStep /\ last'.kind = "output") =>
        /\ Len(history') = Len(history) + 1
        /\ SubSeq(history', 1, Len(history)) = history
        /\ LET e == history'[Len(history')]
           IN  /\ e.kind = "InputAdded"
               /\ e.input = inputs'[Len(inputs')].id
               /\ \A i \in 1..Len(inputs) : inputs[i].id # e.input]_vars

C7_Witness ==
    /\ last.op = "accept" /\ last.ret /\ last.kind = "output"
    /\ size = 3
    /\ history[Len(history)].input = At(2).id
    /\ At(0).src[1] = "data"

IsOutputEnd(end) == end[1] \in {"output.sender", "output.receiver"}

\* C8: a successful accept(shared_ptr<Data>) sends exactly one
\* InputAddedToSharedPointer signal and no InputAdded signal, and connects no
\* output to the new input or to the Inputs object.
C8_DataAcceptWiresNothing ==
    [][(AcceptedStep /\ last'.kind = "data") =>
        /\ Len(history') = Len(history) + 1
        /\ SubSeq(history', 1, Len(history)) = history
        /\ history'[Len(history')].kind = "InputAddedToSharedPointer"
        /\ Len(connections') >= Len(connections)
        /\ SubSeq(connections', 1, Len(connections)) = connections
        /\ \A n \in (Len(connections) + 1)..Len(connections') :
               /\ ~IsOutputEnd(connections'[n][1])
               /\ ~IsOutputEnd(connections'[n][2])
        /\ LET id == inputs'[Len(inputs')].id
           IN  \A n \in 1..Len(connections') :
                   /\ connections'[n][1] # InputSender(id)
                   /\ connections'[n][2] # InputReceiver(id)]_vars

C8_Witness ==
    /\ last.op = "accept" /\ last.ret /\ last.kind = "data"
    /\ created = 1
    /\ connections = << <<InternalSender, OwnReceiver>> >>
    /\ history[Len(history)].kind = "InputAddedToSharedPointer"

\* C9 as stated: when the signal of a successful accept is sent, size() is
\* already the prior size plus one and operator[](prior size) is the input
\* the signal carries.
C9_PushBackBeforeSignal ==
    [][AcceptedStep =>
        LET e == history'[Len(history')]
        IN  /\ e.seen.size = Len(inputs) + 1
            /\ e.seen.ids[Len(inputs) + 1] = e.input]_vars

\* C9 amended: the signal of a successful accept is sent before the input is
\* appended: when it is sent size() is still the prior size and the input it
\* carries is not in the collection; the input is at index prior size, and
\* size() is the prior size plus one, once accept has returned.
C9_SignalBeforePushBack ==
    /\ [](\A n \in 1..Len(history) :
            IsAdded(history[n]) =>
                \A i \in 1..history[n].seen.size :
                    history[n].seen.ids[i] # history[n].input)
    /\ [][AcceptedStep =>
            LET e == history'[Len(history')]
            IN  /\ e.seen.size = Len(inputs)
                /\ e.seen.ids = InputIds
                /\ Len(inputs') = Len(inputs) + 1
                /\ inputs'[Len(inputs) + 1].id = e.input]_vars

C9_Witness ==
    /\ last.op = "accept" /\ last.ret
    /\ size = 2
    /\ history[Len(history)].seen.size = 1
    /\ history[Len(history)].input = At(1).id

\* Number of times the internal sender was connected to the own receiver.
InternalConnections ==
    Cardinality({n \in 1..Len(connections) :
                    connections[n] = <<InternalSender, OwnReceiver>>})

\* C10: the internal sender is connected to the own receiver exactly once,
\* in the first successful accept: not by a failing accept, not again by a
\* later accept, and clear() does not reset the flag.
C10_InternalConnectedOnce ==
    /\ [](InternalConnections = IF internalConnected THEN 1 ELSE 0)
    /\ [](internalConnected <=> created > 0)
    /\ [][internalConnected => internalConnected']_vars
    /\ [][(RejectedStep \/ ClearStep) =>
            UNCHANGED <<internalConnected, connections>>]_vars

C10_Witness ==
    /\ Cleared
    /\ created = 3
    /\ size = 1
    /\ internalConnected
    /\ InternalConnections = 1

\* C11: a callback pair registered while k inputs are held is registered at
\* none of them, and at every input accepted later with the index of that
\* input; registerCallbacks changes neither size(), nor a slot group, nor the
\* signals sent.
C11_CallbacksApplyForward ==
    /\ [][last'.op = "registerCallbacks" =>
            /\ Len(multiCallbacks') = Len(multiCallbacks) + 1
            /\ UNCHANGED <<inputs, slots, slotCount, history>>
            /\ \A i \in 1..Len(inputs') :
                   \A b \in 1..Len(inputs'[i].callbacks) :
                       inputs'[i].callbacks[b].cb # Len(multiCallbacks')]_vars
    /\ [][AcceptedStep =>
            LET p == inputs'[Len(inputs')]
            IN  /\ Len(p.callbacks) = Len(multiCallbacks)
                /\ \A c \in 1..Len(multiCallbacks) :
                       /\ p.callbacks[c].cb = c
                       /\ p.callbacks[c].numInput = Len(inputs)]_vars
    /\ [][~ClearStep =>
            \A i \in 1..Len(inputs) :
                inputs'[i].callbacks = inputs[i].callbacks]_vars

C11_Witness ==
    /\ last.op = "registerCallbacks"
    /\ Len(multiCallbacks) = 2
    /\ size = 2
    /\ Len(At(0).callbacks) = 0
    /\ Len(At(1).callbacks) = 1
    /\ At(1).callbacks[1].numInput = 1

C14_LateRegisterSlotsOnlyAppends ==
    [][(last'.op = "registerSlots" /\ size > 0) =>
        /\ Len(slots') = Len(slots) + 1
        /\ SubSeq(slots', 1, Len(slots)) = slots
        /\ UNCHANGED <<inputs, slotCount, history, multiCallbacks,
                       connections, internalConnected>>]_vars

C14_Witness ==
    /\ last.op = "registerSlots"
    /\ size = 2
    /\ slots = <<"g1">>
    /\ slotCount["g1"] = 0

\* The order and the timing of what a successful accept registers: the groups
\* in registration order, then the callbacks in registration order, all of it
\* done when the signal is sent.
AcceptRegistersInOrder ==
    [][AcceptedStep =>
        LET p == inputs'[Len(inputs')]
            e == history'[Len(history')]
        IN  /\ Len(p.slots) = Len(slots)
            /\ \A j \in 1..Len(slots) : p.slots[j].group = slots[j]
            /\ Len(p.callbacks) = Len(multiCallbacks)
            /\ \A c \in 1..Len(multiCallbacks) : p.callbacks[c].cb = c
            /\ Len(p.order) = Len(slots) + Len(multiCallbacks)
            /\ \A k \in 1..Len(p.order) :
                   p.order[k] = IF k <= Len(slots) THEN "slot" ELSE "callback"
            /\ IsAdded(e)
            /\ e.input = p.id
            /\ e.seen.nSlots = Len(slots)
            /\ e.seen.nCallbacks = Len(multiCallbacks)
            /\ e.seen.slotCount = slotCount']_vars

C16_ClearedBeforeSignal ==
    [][ClearStep =>
        LET e == history'[Len(history')]
        IN  /\ e.kind = "InputsCleared"
            /\ e.seen.size = 0
            /\ \A i \in 1..Len(slots) : e.seen.slotCount[slots[i]] = 0]_vars

C16_Witness ==
    /\ last.op = "clear"
    /\ Len(history) = 2
    /\ slots = <<"g1">>
    /\ history[1].seen.slotCount["g1"] = 1
    /\ history[2].seen.size = 0
    /\ history[2].seen.slotCount["g1"] = 0

\* InputAdded and InputAddedToSharedPointer signals sent since the most recent
\* InputsCleared signal (or since construction).
RECURSIVE AddedSinceClear(_)
AddedSinceClear(h) ==
    IF h = <<>> THEN 0
    ELSE IF h[Len(h)].kind = "InputsCleared" THEN 0
    ELSE (IF IsAdded(h[Len(h)]) THEN 1 ELSE 0)
         + AddedSinceClear(SubSeq(h, 1, Len(h) - 1))

\* C17: between calls, size() is the number of InputAdded and
\* InputAddedToSharedPointer signals sent since the most recent InputsCleared.
C17_SizeCountsSignalsSinceClear ==
    size = AddedSinceClear(history)

C17_Witness ==
    /\ Len(history) = 4
    /\ history[1].kind = "InputAdded"
    /\ history[2].kind = "InputsCleared"
    /\ history[3].kind = "InputAddedToSharedPointer"
    /\ history[4].kind = "InputAdded"
    /\ size = 2

\* Number of slots of a group registered at an input.
SlotsIn(p, g) == Cardinality({j \in 1..Len(p.slots) : p.slots[j].group = g})

\* The step is accept(OutputBase&) with the output the call before it accepted.
SameOutputAgain ==
    /\ last.op = "accept" /\ last.ret /\ last.kind = "output"
    /\ last'.op = "accept" /\ last'.kind = "output" /\ last'.arg = last.arg

\* Accepting the same output again gives a second input and a second signal.
SameOutputAcceptedTwice ==
    [][SameOutputAgain =>
        /\ last'.ret
        /\ Len(inputs') = Len(inputs) + 1
        /\ LET n == Len(inputs)
               a == inputs'[n]
               b == inputs'[n + 1]
               m == Len(history')
           IN  /\ a = inputs[n]
               /\ a.id # b.id
               /\ a.src = b.src
               /\ \A j \in 1..Len(a.slots) :
                      \A k \in 1..Len(b.slots) : a.slots[j] # b.slots[k]
               /\ m = Len(history) + 1
               /\ history'[m - 1].kind = "InputAdded"
               /\ history'[m - 1].input = a.id
               /\ history'[m].kind = "InputAdded"
               /\ history'[m].input = b.id]_vars

OutputOf(id) == CHOOSE o \in Outputs : o.id = id

\* Whether a connect call for the pair was made.
Connected(sender, receiver) ==
    \E n \in 1..Len(connections) : connections[n] = <<sender, receiver>>

\* C19: a successful accept(OutputBase&) connects the sender of the output to
\* the receiver of the Inputs object and the sender of the Inputs object to
\* the receiver of the output, besides the connections of the new input, and
\* clear() undoes none of them: they are there while size() is 0.
C19_OutputStaysConnected ==
    /\ [][(AcceptedStep /\ last'.kind = "output") =>
            LET o == OutputOf(last'.arg)
                id == inputs'[Len(inputs')].id
                m == Len(connections')
            IN  /\ m >= Len(connections) + 4
                /\ SubSeq(connections', 1, Len(connections)) = connections
                /\ connections'[m - 3] = <<OutputSender(o), InputReceiver(id)>>
                /\ connections'[m - 2] = <<InputSender(id), OutputReceiver(o)>>
                /\ connections'[m - 1] = <<OutputSender(o), OwnReceiver>>
                /\ connections'[m] = <<OwnSender, OutputReceiver(o)>>]_vars
    /\ [][ClearStep => connections' = connections]_vars
    /\ [](CountKind(history, "InputAdded") > 0 =>
            \E o \in Outputs : /\ Connected(OutputSender(o), OwnReceiver)
                               /\ Connected(OwnSender, OutputReceiver(o)))

C19_Witness ==
    /\ last.op = "clear"
    /\ size = 0
    /\ history[1].kind = "InputAdded"
    /\ Connected(OutputSender(OutputOf(1)), OwnReceiver)
    /\ Connected(OwnSender, OutputReceiver(OutputOf(1)))

====
